---------------------------- MODULE Spec2Model ----------------------------
(***************************************************************************)
(* Execution orchestration state machine of the Product Evolution Engine   *)
(* backend: one execution run, the HTTP actions on it (approve, retry,     *)
(* plan edit, plan feedback, abandon, mark merged), the background phase   *)
(* handlers they schedule (plan, build, retry, plan regeneration) and the  *)
(* startup recovery sweep.                                                 *)
(*                                                                         *)
(* The datastore is taken to be reliable: a select/update/insert on        *)
(* execution_runs or execution_logs does not raise.  Every other external  *)
(* call (clone, branch, LLM, agent, verification, push, PR, rmtree)        *)
(* returns one of its possible outcomes, chosen nondeterministically.      *)
(* A phase handler is split at each write of the persisted status, the     *)
(* points where another request or a crash can observe the run.            *)
(***************************************************************************)
EXTENDS Integers, Sequences, FiniteSets, Bags, TLC

VARIABLES
    status,                 \* execution_runs.status
    sandbox_path,           \* execution_runs.sandbox_path
    branch_name,            \* execution_runs.branch_name
    plan_md,                \* execution_runs.plan_md
    pr_url,                 \* execution_runs.pr_url
    pr_merged,              \* execution_runs.pr_merged
    iteration_count,        \* execution_runs.iteration_count
    plan_feedback_rating,   \* execution_runs.plan_feedback_rating
    plan_feedback_comment,  \* execution_runs.plan_feedback_comment
    logged,                 \* rows the last step inserted into execution_logs
    sandboxDir,             \* the sandbox directory on disk: absent, dir, repo
    planFile,               \* content of <sandbox>/Plan.md
    tasks,                  \* background tasks of the run (a bag of records)
    resp,                   \* the HTTP response the last step sent, if any
    nreq,                   \* number of HTTP requests served on the run
    started,                \* the last step was a process start
    finished,               \* the background task that ended in the last step, if any
    pushCalls,              \* calls of commit_and_push for the run
    prCalls,                \* calls of open_pull_request for the run
    feature_nodes,          \* feature_nodes rows inserted for the run's feature
    feature_edges,          \* feature_edges rows inserted for the run's feature
    mergeCalls,             \* on-merged requests answered 200
    abandoned,              \* an abandon request was served for the run
    call,                   \* a helper function under study: its arguments
    ret                     \* ... and what it returned

runFields == <<status, sandbox_path, branch_name, plan_md, pr_url, pr_merged,
               iteration_count, plan_feedback_rating,
                   plan_feedback_comment>>
vars == <<status, sandbox_path, branch_name, plan_md, pr_url, pr_merged,
          iteration_count, plan_feedback_rating,
                   plan_feedback_comment, logged, sandboxDir, planFile,
          tasks, resp, nreq, started, finished, pushCalls, prCalls,
          feature_nodes, feature_edges, mergeCalls, abandoned, call, ret>>

\* the helper call studied on its own (unused while the run is modelled)
pureVars == <<call, ret>>

\* the feature graph rows of the run and the accepted merge notifications
graphVars == <<feature_nodes, feature_edges, mergeCalls>>

\* ---- bounds of the model -------------------------------------------------
MaxRequests == 3

\* ---- program constants ---------------------------------------------------
max_fix_iterations == 2

NULL == "null"

Statuses == {"queued", "cloning", "planning", "testing", "awaiting_approval",
             "building", "verifying", "pushing", "done", "failed"}

\* ---- execution_logs ------------------------------------------------------
\* The table is insert-only (no update or delete of execution_logs exists in
\* the code), so the model keeps the rows each step inserts, in call order.
One(x) == SetToBag({x})

Entry(step, message, level) == [step |-> step, message |-> message, level |-> level]

\* _log: insert one row into execution_logs
log(rows, step, message, level) == Append(rows, Entry(step, message, level))

\* ---- background tasks ----------------------------------------------------
\* no prompt has been built; last_verify_error = ""
NoPrompt == [template |-> "none"]
NoError == [iteration |-> -1]

NewTask(kind) ==
    [kind |-> kind, pc |-> "start", outcome |-> "none", iteration |-> 0,
     agentCalls |-> 0, verifyCalls |-> 0, okVerifies |-> 0,
     prompt |-> NoPrompt, last_verify_error |-> NoError]

\* no task ended in the last step
NoTask == [NewTask("none") EXCEPT !.pc = "none"]

Live == BagToSet(tasks)

add_task(kind) == tasks (+) One(NewTask(kind))

\* a task goes on to its next await point
Continue(t, t2) ==
    /\ tasks' = (tasks (-) One(t)) (+) One(t2)
    /\ finished' = NoTask

\* a task ends: the handler returns to the worker, which returns
Finish(t, last, outcome) ==
    /\ tasks' = tasks (-) One(t)
    /\ finished' = [last EXCEPT !.pc = "exit", !.outcome = outcome]

Response(req, code) == [req |-> req, code |-> code]

\* the last step served no request
NoResponse == Response("none", 0)

\* no helper call is under study
NoCall == [fn |-> "none"]

\* the run as build_feature inserts it, its plan task scheduled
InitRun ==
    /\ status = "queued"
    /\ sandbox_path = NULL
    /\ branch_name = NULL
    /\ plan_md = NULL
    /\ pr_url = NULL
    /\ pr_merged = FALSE
    /\ iteration_count = 0
    /\ plan_feedback_rating = NULL
    /\ plan_feedback_comment = NULL
    /\ logged = <<>>
    /\ sandboxDir = "absent"
    /\ planFile = NULL
    /\ tasks = One(NewTask("plan"))
    /\ resp = NoResponse
    /\ nreq = 0
    /\ started = FALSE
    /\ finished = NoTask
    /\ pushCalls = 0
    /\ prCalls = 0
    /\ feature_nodes = 0
    /\ feature_edges = 0
    /\ mergeCalls = 0
    /\ abandoned = FALSE

Init ==
    /\ InitRun
    /\ call = NoCall
    /\ ret = NoCall

\* ---- helpers of the phase handlers ---------------------------------------
SANDBOX == "sandboxes/repo/run"
BRANCH == "pee/feature-slug-run"
GENERATED_PLAN == "generated"
PR_URL == "https://github.com/pr/1"

\* the existence of the directory is not checked
sandboxExists_Unchecked == TRUE

\* Path(sandbox_path).exists()
sandboxExists == sandboxDir # "absent"

\* the except branch forgets to write the log row
Raised_NoLog(t, message) ==
    /\ status' = "failed"
    /\ logged' = <<>>
    /\ Finish(t, t, "raised")

\* the except branch of a phase handler: status failed, one 'error' row
Raised(t, message) ==
    /\ status' = "failed"
    /\ logged' = log(<<>>, "error", message, "error")
    /\ Finish(t, t, "raised")

\* ---- Phase 1: execute_plan_phase -----------------------------------------
execute_plan_phase_begin(t) ==
    /\ t.kind = "plan" /\ t.pc = "start"
    /\ status' = "cloning"
    /\ logged' = log(<<>>, "clone", "cloning", "info")
    /\ Continue(t, [t EXCEPT !.pc = "clone"])
    /\ resp' = NoResponse
    /\ started' = FALSE
    /\ UNCHANGED graphVars
    /\ UNCHANGED abandoned
    /\ UNCHANGED pureVars
    /\ UNCHANGED <<sandbox_path, branch_name, plan_md, pr_url, pr_merged,
                   iteration_count, plan_feedback_rating,
                   plan_feedback_comment, sandboxDir, planFile,
                   nreq, pushCalls, prCalls>>

CloneResults == {"ok", "clone_raises", "branch_raises"}

execute_plan_phase_clone(t, r) ==
    /\ t.kind = "plan" /\ t.pc = "clone"
    /\ CASE r = "clone_raises" ->
              \* os.makedirs ran, clone_repo raised
              /\ sandboxDir' = IF sandboxDir = "absent" THEN "dir" ELSE sandboxDir
              /\ Raised(t, "clone")
              /\ UNCHANGED <<sandbox_path, branch_name>>
         [] r = "branch_raises" ->
              /\ sandboxDir' = "repo"
              /\ sandbox_path' = SANDBOX
              /\ Raised(t, "branch")
              /\ UNCHANGED branch_name
         [] r = "ok" ->
              /\ sandboxDir' = "repo"
              /\ sandbox_path' = SANDBOX
              /\ branch_name' = BRANCH
              /\ status' = "planning"
              /\ logged' = log(log(log(<<>>, "clone", "created branch", "info"),
                                 "plan", "scanned", "info"),
                             "plan", "generating", "info")
              /\ Continue(t, [t EXCEPT !.pc = "plan"])
    /\ resp' = NoResponse
    /\ started' = FALSE
    /\ UNCHANGED graphVars
    /\ UNCHANGED abandoned
    /\ UNCHANGED pureVars
    /\ UNCHANGED <<plan_md, pr_url, pr_merged, iteration_count,
                   plan_feedback_rating,
                   plan_feedback_comment, planFile,
                   nreq, pushCalls, prCalls>>

LlmResults == {"ok", "raises"}

execute_plan_phase_plan(t, r) ==
    /\ t.kind = "plan" /\ t.pc = "plan"
    /\ IF r = "raises" \/ ~sandboxExists
       THEN \* _generate_plan raised, or Plan.md cannot be written
            /\ Raised(t, IF r = "raises" THEN "llm" ELSE "write")
            /\ UNCHANGED planFile
       ELSE /\ planFile' = GENERATED_PLAN
            /\ status' = "testing"
            /\ logged' = log(<<>>, "plan", "plan written", "info")
            /\ Continue(t, [t EXCEPT !.pc = "tests"])
    /\ resp' = NoResponse
    /\ started' = FALSE
    /\ UNCHANGED graphVars
    /\ UNCHANGED abandoned
    /\ UNCHANGED pureVars
    /\ UNCHANGED <<sandbox_path, branch_name, plan_md, pr_url, pr_merged,
                   iteration_count, plan_feedback_rating,
                   plan_feedback_comment, sandboxDir,
                   nreq, pushCalls, prCalls>>

TestCodes == {"", "code"}

execute_plan_phase_tests(t, test_code) ==
    /\ t.kind = "plan" /\ t.pc = "tests"
    \* test_path.parent.mkdir(parents=True) recreates a removed sandbox directory
    /\ sandboxDir' = IF sandboxDir = "absent" THEN "dir" ELSE sandboxDir
    /\ status' = "awaiting_approval"
    /\ plan_md' = GENERATED_PLAN
    /\ logged' = log(IF test_code = ""
                   THEN log(<<>>, "tests", "no test code", "warn")
                   ELSE log(<<>>, "tests", "test written", "info"),
                   "plan", "plan ready", "info")
    /\ Finish(t, t, "awaiting")
    /\ resp' = NoResponse
    /\ started' = FALSE
    /\ UNCHANGED graphVars
    /\ UNCHANGED abandoned
    /\ UNCHANGED pureVars
    /\ UNCHANGED <<sandbox_path, branch_name, pr_url, pr_merged,
                   iteration_count, plan_feedback_rating,
                   plan_feedback_comment, planFile,
                   nreq, pushCalls, prCalls>>

\* the error and warning rows of the earlier attempt, as
\* _get_recent_error_logs returns them (possibly empty)
ERROR_CONTEXT == "recent error logs"
NO_CONTEXT == ""

\* "Read Plan.md and implement the feature exactly as described ..."
ImplementPrompt(error_context) ==
    [template |-> "implement", error_context |-> error_context,
     verify_error |-> NoError]

\* "The previous implementation attempt failed verification ...
\*  Verification output from the failed attempt:\n{last_verify_error}"
FixPrompt(verify_error) ==
    [template |-> "fix", error_context |-> NO_CONTEXT,
     verify_error |-> verify_error]

\* the diagnostic output of the verification call of an iteration
verify_error(iteration) == [iteration |-> iteration]

\* every iteration gets the from-scratch prompt again
LoopPrompt_AlwaysImplement(kind, iteration, last_verify_error) ==
    ImplementPrompt(IF kind = "retry" THEN ERROR_CONTEXT ELSE NO_CONTEXT)

\* the count of attempts started is stored, one more than the index
PersistedIteration_Attempts(iteration) == iteration + 1

\* _update_status(run_id, "building", iteration_count=iteration)
PersistedIteration(iteration) == iteration

\* the prompt the agent is invoked with at an iteration of the loop
LoopPrompt(kind, iteration, last_verify_error) ==
    IF iteration = 0
    THEN ImplementPrompt(IF kind = "retry" THEN ERROR_CONTEXT ELSE NO_CONTEXT)
    ELSE FixPrompt(last_verify_error)

\* ---- the bounded build/verify loop (build phase and retry action) --------
\* the loop bound off by one: one attempt too many
LoopContinues_OffByOne(iteration) == iteration <= max_fix_iterations + 1

\* while iteration <= max_iterations
LoopContinues(iteration) == iteration <= max_fix_iterations

\* the verification result is ignored
Verified_Ignored(v) == v \in {"pass", "fail"}

\* if verified:
Verified(v) == v = "pass"

\* the message of the exhaustion row differs between build and retry
ExhaustedMessage(kind) == IF kind = "build" THEN "failed after" ELSE "retry failed after"

AgentResults == {"ok", "nonzero", "timeout", "notfound", "raises"}

\* the rows _invoke_claude_code writes for one invocation
AgentRows(rows, r) ==
    LET live == log(rows, "build", "live log", "info") IN
    CASE r = "ok"       -> live
      [] r = "nonzero"  -> log(live, "claude_code", "exit code", "error")
      [] r = "timeout"  -> log(live, "claude_code", "timed out", "error")
      [] r = "notfound" -> log(live, "claude_code", "not found", "error")
      [] OTHER          -> rows

\* every failure of the agent ends the run
AgentFatal_AnyFailure(r) == r # "ok"

\* _invoke_claude_code returns False for a non-zero exit, a timeout and a
\* missing executable; only an exception raised before its try block
\* (preparing the live-log path) escapes to the handler
AgentFatal(r) == r = "raises"

\* the agent is awaited without a timeout and hangs
AgentReturns_NoTimeout == FALSE

\* the subprocess runs under timeout and the await under timeout + 10, so
\* the invocation always comes back
AgentReturns == TRUE

\* the agent invocation of one iteration returns; status verifying
build_loop_agent(t, r) ==
    /\ t.kind \in {"build", "retry"} /\ t.pc = "agent"
    /\ AgentReturns
    /\ LET t1 == [t EXCEPT !.agentCalls = @ + 1] IN
       IF AgentFatal(r)
       THEN /\ status' = "failed"
            /\ logged' = log(AgentRows(<<>>, r), "error", "agent", "error")
            /\ Finish(t, t1, "raised")
       ELSE /\ status' = "verifying"
            /\ logged' = log(IF r = "ok"
                           THEN AgentRows(<<>>, r)
                           ELSE log(AgentRows(<<>>, r), "build", "non-zero", "warn"),
                           "verify", "running", "info")
            /\ Continue(t, [t1 EXCEPT !.pc = "verify"])
    /\ resp' = NoResponse
    /\ started' = FALSE
    /\ UNCHANGED graphVars
    /\ UNCHANGED abandoned
    /\ UNCHANGED pureVars
    /\ UNCHANGED <<sandbox_path, branch_name, plan_md, pr_url, pr_merged,
                   iteration_count, plan_feedback_rating,
                   plan_feedback_comment, sandboxDir, planFile,
                   nreq, pushCalls, prCalls>>

VerifyResults == {"pass", "fail"}

\* the verification of one iteration returns
build_loop_verify(t, v) ==
    /\ t.kind \in {"build", "retry"} /\ t.pc = "verify"
    /\ LET t1 == [t EXCEPT !.verifyCalls = @ + 1,
                            !.okVerifies = @ + IF v = "pass" THEN 1 ELSE 0] IN
       IF Verified(v)
       THEN /\ status' = "pushing"
            /\ logged' = log(log(<<>>, "verify", "passed", "info"),
                           "push", "pushing", "info")
            /\ Continue(t, [t1 EXCEPT !.pc = "push"])
            /\ UNCHANGED iteration_count
       ELSE IF LoopContinues(t.iteration + 1)
       THEN /\ status' = "building"
            /\ iteration_count' = PersistedIteration(t.iteration + 1)
            /\ logged' = log(log(<<>>, "verify", "failed", "warn"),
                           "build", "invoking", "info")
            /\ Continue(t, [t1 EXCEPT !.pc = "agent", !.iteration = @ + 1,
                                      !.last_verify_error = verify_error(t.iteration),
                                      !.prompt = LoopPrompt(t.kind, t.iteration + 1,
                                                            verify_error(t.iteration))])
       ELSE /\ status' = "failed"
            /\ logged' = log(log(<<>>, "verify", "failed", "warn"),
                           "done", ExhaustedMessage(t.kind), "error")
            /\ Finish(t, [t1 EXCEPT !.iteration = @ + 1,
                                    !.last_verify_error = verify_error(t.iteration)],
                      "exhausted")
            /\ UNCHANGED iteration_count
    /\ resp' = NoResponse
    /\ started' = FALSE
    /\ UNCHANGED graphVars
    /\ UNCHANGED abandoned
    /\ UNCHANGED pureVars
    /\ UNCHANGED <<sandbox_path, branch_name, plan_md, pr_url, pr_merged,
                   plan_feedback_rating,
                   plan_feedback_comment, sandboxDir, planFile,
                   nreq, pushCalls, prCalls>>

PushResults == {"ok", "push_raises", "pr_raises"}

\* _commit_push_pr returns or raises; on success status done, sandbox removed
\* the except branch cleans the sandbox up as the success path does
SandboxOnFailure_Removed(dir) == "absent"

\* "Sandbox is preserved on failure for retry": no rmtree in the except branch
SandboxOnFailure(dir) == dir

build_loop_push(t, r, removed) ==
    /\ t.kind \in {"build", "retry"} /\ t.pc = "push"
    /\ IF r = "push_raises" \/ sandboxDir # "repo"
       THEN \* Repo(repo_path), commit or push raised
            /\ pushCalls' = pushCalls + 1
            /\ Raised(t, "push")
            /\ sandboxDir' = SandboxOnFailure(sandboxDir)
            /\ UNCHANGED <<prCalls, pr_url, planFile>>
       ELSE IF r = "pr_raises"
       THEN /\ pushCalls' = pushCalls + 1
            /\ prCalls' = prCalls + 1
            /\ Raised(t, "pr")
            /\ sandboxDir' = SandboxOnFailure(sandboxDir)
            /\ UNCHANGED <<pr_url, planFile>>
       ELSE /\ pushCalls' = pushCalls + 1
            /\ prCalls' = prCalls + 1
            /\ status' = "done"
            /\ pr_url' = PR_URL
            /\ logged' = log(<<>>, "done", "pr opened", "info")
            \* shutil.rmtree(sandbox_path, ignore_errors=True)
            /\ sandboxDir' = IF removed THEN "absent" ELSE sandboxDir
            /\ planFile' = IF removed THEN NULL ELSE planFile
            /\ Finish(t, t, "done")
    /\ resp' = NoResponse
    /\ started' = FALSE
    /\ UNCHANGED graphVars
    /\ UNCHANGED abandoned
    /\ UNCHANGED pureVars
    /\ UNCHANGED <<sandbox_path, branch_name, plan_md, pr_merged,
                   iteration_count, plan_feedback_rating,
                   plan_feedback_comment, nreq>>

\* ---- Phase 2: execute_build_phase ----------------------------------------
execute_build_phase_begin(t) ==
    /\ t.kind = "build" /\ t.pc = "start"
    /\ IF sandbox_path = NULL \/ ~sandboxExists
       THEN /\ status' = "failed"
            /\ logged' = log(<<>>, "error", "sandbox missing", "error")
            /\ Finish(t, t, "nosandbox")
            /\ UNCHANGED iteration_count
       ELSE /\ status' = "building"
            /\ iteration_count' = PersistedIteration(0)
            /\ logged' = log(<<>>, "build", "invoking", "info")
            /\ Continue(t, [t EXCEPT !.pc = "agent",
                                     !.prompt = LoopPrompt(t.kind, 0, NoError)])
    /\ resp' = NoResponse
    /\ started' = FALSE
    /\ UNCHANGED graphVars
    /\ UNCHANGED abandoned
    /\ UNCHANGED pureVars
    /\ UNCHANGED <<sandbox_path, branch_name, plan_md, pr_url, pr_merged,
                   plan_feedback_rating,
                   plan_feedback_comment, sandboxDir, planFile,
                   nreq, pushCalls, prCalls>>

\* ---- retry_build_phase ---------------------------------------------------
retry_build_phase_begin(t) ==
    /\ t.kind = "retry" /\ t.pc = "start"
    /\ IF sandbox_path = NULL \/ ~sandboxExists
       THEN /\ status' = "failed"
            /\ logged' = log(<<>>, "error", "sandbox missing", "error")
            /\ Finish(t, t, "nosandbox")
            /\ UNCHANGED planFile
       ELSE IF plan_md = NULL
       THEN \* plan_path.write_text(None) raises TypeError
            /\ Raised(t, "write")
            /\ UNCHANGED planFile
       ELSE /\ planFile' = plan_md
            /\ logged' = log(<<>>, "tests", "regenerating", "info")
            /\ Continue(t, [t EXCEPT !.pc = "tests"])
            /\ UNCHANGED status
    /\ resp' = NoResponse
    /\ started' = FALSE
    /\ UNCHANGED graphVars
    /\ UNCHANGED abandoned
    /\ UNCHANGED pureVars
    /\ UNCHANGED <<sandbox_path, branch_name, plan_md, pr_url, pr_merged,
                   iteration_count, plan_feedback_rating,
                   plan_feedback_comment, sandboxDir,
                   nreq, pushCalls, prCalls>>

\* the retry keeps the iteration count of the failed attempt
retry_build_phase_tests_NoReset(t, r) ==
    /\ t.kind = "retry" /\ t.pc = "tests"
    /\ IF r = "raises"
       THEN /\ Raised(t, "llm")
            /\ UNCHANGED <<sandboxDir, iteration_count>>
       ELSE \* test_path.parent.mkdir(parents=True) recreates a removed directory
            /\ sandboxDir' = IF sandboxDir = "absent" THEN "dir" ELSE sandboxDir
            /\ status' = "building"
            /\ UNCHANGED iteration_count
            /\ logged' = log(log(log(<<>>, "tests", "regenerated", "info"),
                               "build", "retrying", "info"),
                           "build", "invoking", "info")
            /\ Continue(t, [t EXCEPT !.pc = "agent",
                                     !.prompt = LoopPrompt(t.kind, 0, NoError)])
    /\ resp' = NoResponse
    /\ started' = FALSE
    /\ UNCHANGED graphVars
    /\ UNCHANGED abandoned
    /\ UNCHANGED pureVars
    /\ UNCHANGED <<sandbox_path, branch_name, plan_md, pr_url, pr_merged,
                   plan_feedback_rating,
                   plan_feedback_comment, planFile,
                   nreq, pushCalls, prCalls>>

\* the test file is regenerated, then the loop starts again at iteration 0
retry_build_phase_tests(t, r) ==
    /\ t.kind = "retry" /\ t.pc = "tests"
    /\ IF r = "raises"
       THEN /\ Raised(t, "llm")
            /\ UNCHANGED <<sandboxDir, iteration_count>>
       ELSE \* test_path.parent.mkdir(parents=True) recreates a removed directory
            /\ sandboxDir' = IF sandboxDir = "absent" THEN "dir" ELSE sandboxDir
            /\ status' = "building"
            /\ iteration_count' = PersistedIteration(0)
            /\ logged' = log(log(log(<<>>, "tests", "regenerated", "info"),
                               "build", "retrying", "info"),
                           "build", "invoking", "info")
            /\ Continue(t, [t EXCEPT !.pc = "agent",
                                     !.prompt = LoopPrompt(t.kind, 0, NoError)])
    /\ resp' = NoResponse
    /\ started' = FALSE
    /\ UNCHANGED graphVars
    /\ UNCHANGED abandoned
    /\ UNCHANGED pureVars
    /\ UNCHANGED <<sandbox_path, branch_name, plan_md, pr_url, pr_merged,
                   plan_feedback_rating,
                   plan_feedback_comment, planFile,
                   nreq, pushCalls, prCalls>>

\* ---- plan regeneration ----------------------------------------------------
\* regenerate_plan_with_feedback is imported by the worker from
\* execution_service but not defined in the sources at hand; it is modelled
\* from the specification: the Plan Generator is re-invoked with the feedback,
\* the revised plan is written and persisted, the run waits for approval again,
\* sandbox and branch are kept; an exception is caught at the top of the phase.
REVISED_PLAN == "revised"

regenerate_plan_with_feedback_begin(t) ==
    /\ t.kind = "regen" /\ t.pc = "start"
    /\ logged' = log(<<>>, "plan", "regenerating", "info")
    /\ Continue(t, [t EXCEPT !.pc = "plan"])
    /\ resp' = NoResponse
    /\ started' = FALSE
    /\ UNCHANGED graphVars
    /\ UNCHANGED abandoned
    /\ UNCHANGED pureVars
    /\ UNCHANGED <<runFields, sandboxDir, planFile, nreq, pushCalls, prCalls>>

regenerate_plan_with_feedback_plan(t, r) ==
    /\ t.kind = "regen" /\ t.pc = "plan"
    /\ IF r = "raises" \/ ~sandboxExists
       THEN /\ Raised(t, IF r = "raises" THEN "llm" ELSE "write")
            /\ UNCHANGED <<planFile, plan_md>>
       ELSE /\ planFile' = REVISED_PLAN
            /\ plan_md' = REVISED_PLAN
            /\ status' = "awaiting_approval"
            /\ logged' = log(<<>>, "plan", "plan ready", "info")
            /\ Finish(t, t, "awaiting")
    /\ resp' = NoResponse
    /\ started' = FALSE
    /\ UNCHANGED graphVars
    /\ UNCHANGED abandoned
    /\ UNCHANGED pureVars
    /\ UNCHANGED <<sandbox_path, branch_name, pr_url, pr_merged,
                   iteration_count, plan_feedback_rating,
                   plan_feedback_comment, sandboxDir,
                   nreq, pushCalls, prCalls>>

\* ---- HTTP actions on the run (routers/execution.py) ----------------------
\* approve also accepted on a failed run
ApproveAllowed_AlsoFailed(s) == s \in {"awaiting_approval", "failed"}

\* if run["status"] != "awaiting_approval": raise HTTPException(400)
ApproveAllowed(s) == s = "awaiting_approval"

\* if run["status"] != "failed": raise HTTPException(400)
RetryAllowed(s) == s = "failed"

\* if run["status"] not in ("failed", "awaiting_approval"): raise HTTPException(400)
EditAllowed(s) == s \in {"failed", "awaiting_approval"}

\* the merge notification is also accepted on a failed run
MergeAllowed_AlsoFailed(s) == s \in {"done", "failed"}

\* if run["status"] != "done": raise HTTPException(400)
MergeAllowed(s) == s = "done"

Served(req, code) ==
    /\ nreq < MaxRequests
    /\ nreq' = nreq + 1
    /\ resp' = Response(req, code)

approve_execution ==
    /\ IF ApproveAllowed(status)
       THEN /\ Served("approve", 200)
            /\ tasks' = add_task("build")
       ELSE /\ Served("approve", 400)
            /\ UNCHANGED tasks
    /\ logged' = <<>>
    /\ started' = FALSE
    /\ UNCHANGED graphVars
    /\ UNCHANGED abandoned
    /\ UNCHANGED pureVars
    /\ finished' = NoTask
    /\ UNCHANGED <<status, sandbox_path, branch_name, plan_md, pr_url, pr_merged,
                   iteration_count, plan_feedback_rating,
                   plan_feedback_comment, sandboxDir, planFile,
                   pushCalls, prCalls>>

retry_execution ==
    /\ IF RetryAllowed(status)
       THEN /\ Served("retry", 200)
            /\ tasks' = add_task("retry")
       ELSE /\ Served("retry", 400)
            /\ UNCHANGED tasks
    /\ logged' = <<>>
    /\ started' = FALSE
    /\ UNCHANGED graphVars
    /\ UNCHANGED abandoned
    /\ UNCHANGED pureVars
    /\ finished' = NoTask
    /\ UNCHANGED <<status, sandbox_path, branch_name, plan_md, pr_url, pr_merged,
                   iteration_count, plan_feedback_rating,
                   plan_feedback_comment, sandboxDir, planFile,
                   pushCalls, prCalls>>

PlanEdits == {"edited"}

update_plan(text) ==
    /\ IF EditAllowed(status)
       THEN /\ Served("plan", 200)
            /\ plan_md' = text
       ELSE /\ Served("plan", 400)
            /\ UNCHANGED plan_md
    /\ logged' = <<>>
    /\ started' = FALSE
    /\ UNCHANGED graphVars
    /\ UNCHANGED abandoned
    /\ UNCHANGED pureVars
    /\ finished' = NoTask
    /\ UNCHANGED <<status, sandbox_path, branch_name, pr_url, pr_merged,
                   iteration_count, plan_feedback_rating,
                   plan_feedback_comment, sandboxDir, planFile,
                   tasks, pushCalls, prCalls>>

Ratings == {"positive", "neutral"}

\* body.comment
Comments == {"", "note"}

\* the regeneration is scheduled whatever the status of the run
FeedbackRegenerates_Always(s, path) == path # NULL

\* the rating is recorded but the regeneration is never scheduled
FeedbackRegenerates_Never(s, path) == s = "awaiting_approval" /\ path = NULL

\* if run.get("status") == "awaiting_approval" and run.get("sandbox_path"):
FeedbackRegenerates(s, path) == s = "awaiting_approval" /\ path # NULL

submit_plan_feedback(rating, comment) ==
    /\ IF rating \notin {"positive", "negative"} \/ plan_md \in {NULL, ""}
       THEN /\ Served("plan-feedback", 400)
            /\ UNCHANGED <<plan_feedback_rating, plan_feedback_comment,
                           status, tasks>>
       ELSE /\ Served("plan-feedback", 200)
            /\ plan_feedback_rating' = rating
            \* body.comment or None
            /\ plan_feedback_comment' = IF comment = "" THEN NULL ELSE comment
            /\ IF FeedbackRegenerates(status, sandbox_path)
               THEN /\ status' = "planning"
                    /\ tasks' = add_task("regen")
               ELSE UNCHANGED <<status, tasks>>
    /\ logged' = <<>>
    /\ started' = FALSE
    /\ UNCHANGED graphVars
    /\ UNCHANGED abandoned
    /\ UNCHANGED pureVars
    /\ finished' = NoTask
    /\ UNCHANGED <<sandbox_path, branch_name, plan_md, pr_url, pr_merged,
                   iteration_count, sandboxDir, planFile,
                   pushCalls, prCalls>>

\* abandon_execution_route and abandon_execution: no check of the status
abandon_execution(removed) ==
    /\ Served("abandon", 200)
    \* if sandbox_path: shutil.rmtree(sandbox_path, ignore_errors=True)
    /\ sandboxDir' = IF sandbox_path # NULL /\ removed THEN "absent" ELSE sandboxDir
    /\ planFile' = IF sandbox_path # NULL /\ removed THEN NULL ELSE planFile
    /\ status' = "failed"
    /\ logged' = log(<<>>, "done", "abandoned", "info")
    /\ started' = FALSE
    /\ UNCHANGED graphVars
    /\ abandoned' = TRUE
    /\ UNCHANGED pureVars
    /\ finished' = NoTask
    /\ UNCHANGED <<sandbox_path, branch_name, plan_md, pr_url, pr_merged,
                   iteration_count, plan_feedback_rating,
                   plan_feedback_comment,
                   tasks, pushCalls, prCalls>>

\* the merged flag is not looked at: every notification inserts again
AlreadyMerged_Ignored == FALSE

\* if run.get("pr_merged"): return run
AlreadyMerged == pr_merged

on_pr_merged ==
    /\ IF ~MergeAllowed(status)
       THEN /\ Served("on-merged", 400)
            /\ UNCHANGED <<pr_merged, graphVars>>
       ELSE /\ Served("on-merged", 200)
            /\ mergeCalls' = mergeCalls + 1
            /\ IF AlreadyMerged
               THEN UNCHANGED <<pr_merged, feature_nodes, feature_edges>>
               ELSE \* the child node, its tree edge, then pr_merged
                    /\ feature_nodes' = feature_nodes + 1
                    /\ feature_edges' = feature_edges + 1
                    /\ pr_merged' = TRUE
    /\ logged' = <<>>
    /\ started' = FALSE
    /\ finished' = NoTask
    /\ UNCHANGED <<status, sandbox_path, branch_name, plan_md, pr_url,
                   iteration_count, plan_feedback_rating,
                   plan_feedback_comment, sandboxDir, planFile,
                   tasks, pushCalls, prCalls, abandoned, call, ret>>

\* ---- startup recovery ------------------------------------------------------
\* the sweep forgets the runs that were pushing
TRANSIENT_STATUSES_NoPushing == {"queued", "cloning", "planning", "testing",
                                 "building", "verifying"}

TRANSIENT_STATUSES == {"queued", "cloning", "planning", "testing",
                       "building", "verifying", "pushing"}

\* the update and the insert cleanup_stale_runs makes for one selected run
cleanup_stale_runs ==
    IF status \in TRANSIENT_STATUSES
    THEN /\ status' = "failed"
         /\ logged' = log(<<>>, "startup", "recovered", "warn")
    ELSE /\ UNCHANGED status
         /\ logged' = <<>>

\* the process restarts: in-flight background tasks are gone, the sweep runs
lifespan ==
    /\ started' = TRUE
    /\ UNCHANGED graphVars
    /\ UNCHANGED abandoned
    /\ UNCHANGED pureVars
    /\ finished' = NoTask
    /\ tasks' = EmptyBag
    /\ cleanup_stale_runs
    /\ resp' = NoResponse
    /\ UNCHANGED <<sandbox_path, branch_name, plan_md, pr_url, pr_merged,
                   iteration_count, plan_feedback_rating,
                   plan_feedback_comment, sandboxDir, planFile,
                   nreq, pushCalls, prCalls>>

\* ---- the specification -----------------------------------------------------
\* a step of a background phase handler
PhaseStep ==
    \/ \E t \in Live : execute_plan_phase_begin(t)
    \/ \E t \in Live, r \in CloneResults : execute_plan_phase_clone(t, r)
    \/ \E t \in Live, r \in LlmResults : execute_plan_phase_plan(t, r)
    \/ \E t \in Live, c \in TestCodes : execute_plan_phase_tests(t, c)
    \/ \E t \in Live : execute_build_phase_begin(t)
    \/ \E t \in Live : retry_build_phase_begin(t)
    \/ \E t \in Live, r \in LlmResults : retry_build_phase_tests(t, r)
    \/ \E t \in Live, r \in AgentResults : build_loop_agent(t, r)
    \/ \E t \in Live, v \in VerifyResults : build_loop_verify(t, v)
    \/ \E t \in Live, r \in PushResults, removed \in BOOLEAN : build_loop_push(t, r, removed)
    \/ \E t \in Live : regenerate_plan_with_feedback_begin(t)
    \/ \E t \in Live, r \in LlmResults : regenerate_plan_with_feedback_plan(t, r)

\* a request whose route checks the status of the run
GatedRequest ==
    \/ approve_execution
    \/ retry_execution
    \/ \E text \in PlanEdits : update_plan(text)
    \/ \E rating \in Ratings, comment \in Comments : submit_plan_feedback(rating, comment)
    \/ on_pr_merged

Next ==
    \/ PhaseStep
    \/ GatedRequest
    \/ \E removed \in BOOLEAN : abandon_execution(removed)
    \/ lifespan

Spec == Init /\ [][Next]_vars

\* the behaviours in which no abandon request is made
SpecNoAbandon == Init /\ [][PhaseStep \/ GatedRequest \/ lifespan]_vars

MaxFairRequests == 2

\* every external call returns, fails or times out, so a handler that can
\* take its next step eventually does; at most MaxFairRequests requests
NextTerminates ==
    \/ PhaseStep
    \/ nreq < MaxFairRequests /\ GatedRequest
    \/ nreq < MaxFairRequests /\ \E removed \in BOOLEAN : abandon_execution(removed)
    \/ lifespan

SpecTerminates == Init /\ [][NextTerminates]_vars /\ WF_vars(PhaseStep)

\* the behaviours in which abandon is requested on failed runs only
SpecAbandonWhenFailed ==
    Init /\ [][ \/ PhaseStep
                \/ GatedRequest
                \/ status = "failed" /\ \E removed \in BOOLEAN : abandon_execution(removed)
                \/ lifespan ]_vars

\* ---- Plan.md as written by the retry action ---------------------------------
\* a text is a sequence of characters; LF and CR stand for "\n" and "\r"
Chars == {"a", "LF", "CR"}

MaxPlanLen == 3

Texts == UNION {[1..n -> Chars] : n \in 0..MaxPlanLen}

\* sys.platform of the server process
Platforms == {"posix", "win32"}

\* os.linesep
linesep(platform) == IF platform = "win32" THEN <<"CR", "LF">> ELSE <<"LF">>

RECURSIVE write_text(_, _)

\* the file is written without newline translation
write_text_Binary(data, platform) == data

\* plan_path.write_text(plan, encoding="utf-8"): text mode, newline=None, every
\* "\n" is written as os.linesep; the characters are ASCII, one byte each
write_text(data, platform) ==
    IF data = <<>>
    THEN <<>>
    ELSE (IF Head(data) = "LF" THEN linesep(platform) ELSE <<Head(data)>>)
         \o write_text(Tail(data), platform)

\* the variables of the run
mainVars == <<runFields, logged, sandboxDir, planFile, tasks, resp, nreq,
              started, finished, pushCalls, prCalls, graphVars, abandoned>>

\* the retry action is about to write the persisted plan_md to Plan.md
InitPlanFile ==
    /\ InitRun
    /\ call \in {[fn |-> "write_text", data |-> d, platform |-> p] :
                   d \in Texts, p \in Platforms}
    /\ ret = NoCall

\* plan = exec_run.get("plan_md"); plan_path.write_text(plan, encoding="utf-8")
retry_writes_plan ==
    /\ call.fn = "write_text" /\ ret = NoCall
    /\ ret' = [fn |-> "write_text", bytes |-> write_text(call.data, call.platform)]
    /\ UNCHANGED <<call, mainVars>>

SpecPlanFile == InitPlanFile /\ [][retry_writes_plan]_vars

----------------------------------------------------------------------------
(* Language detection.  A file name is the sequence of its characters.     *)

FileNames ==
    { <<"a", ".", "p", "y">>,
      <<"a", ".", "t", "s">>,
      <<"a", ".", "j", "s", "x">>,
      <<"A", ".", "j", "a", "v", "a">>,
      <<"a", ".", "p", "y", "c">> }

MaxHints == 3
MaxTree == 2

FileLists(n) == UNION {[1..k -> FileNames] : k \in 0..n}

\* str.endswith
endswith(f, suffix) ==
    /\ Len(f) >= Len(suffix)
    /\ SubSeq(f, Len(f) - Len(suffix) + 1, Len(f)) = suffix

PY_SUFFIXES == { <<".", "p", "y">> }
TS_SUFFIXES == { <<".", "t", "s">>, <<".", "t", "s", "x">>,
                 <<".", "j", "s">>, <<".", "j", "s", "x">> }
JAVA_SUFFIXES == { <<".", "j", "a", "v", "a">> }

\* sum(1 for f in files if f.endswith(suffixes))
CountSuffix(files, suffixes) ==
    Cardinality({i \in 1..Len(files) : \E x \in suffixes : endswith(files[i], x)})

_counts(files) ==
    [py |-> CountSuffix(files, PY_SUFFIXES),
     ts |-> CountSuffix(files, TS_SUFFIXES),
     java |-> CountSuffix(files, JAVA_SUFFIXES)]

\* the fallback on the whole tree
DominantLanguage(c) ==
    IF c.py >= c.ts /\ c.py >= c.java THEN "python"
    ELSE IF c.ts >= c.py /\ c.ts >= c.java THEN "typescript"
    ELSE "java"

\* a tie in the tree has no answer
_detect_feature_language_NoTieBreak(impacted_files, file_tree) ==
    LET c == _counts(impacted_files)
        d == _counts(file_tree) IN
    IF c.py > c.ts /\ c.py > c.java THEN "python"
    ELSE IF c.ts > c.py /\ c.ts > c.java THEN "typescript"
    ELSE IF c.java > c.py /\ c.java > c.ts THEN "java"
    ELSE IF d.py > d.ts /\ d.py > d.java THEN "python"
    ELSE IF d.ts > d.py /\ d.ts > d.java THEN "typescript"
    ELSE IF d.java > d.py /\ d.java > d.ts THEN "java"
    ELSE "unknown"

\* the tree decides, the hints are ignored
_detect_feature_language_TreeOnly(impacted_files, file_tree) ==
    DominantLanguage(_counts(file_tree))

_detect_feature_language(impacted_files, file_tree) ==
    LET c == _counts(impacted_files) IN
    IF c.py > c.ts /\ c.py > c.java THEN "python"
    ELSE IF c.ts > c.py /\ c.ts > c.java THEN "typescript"
    ELSE IF c.java > c.py /\ c.java > c.ts THEN "java"
    ELSE DominantLanguage(_counts(file_tree))

InitLanguage ==
    /\ InitRun
    /\ call \in {[fn |-> "_detect_feature_language",
                   impacted_files |-> h, file_tree |-> f] :
                     h \in FileLists(MaxHints), f \in FileLists(MaxTree)}
    /\ ret = NoCall

\* the plan, build and retry handlers detect the language of the feature
detects_language ==
    /\ call.fn = "_detect_feature_language" /\ ret = NoCall
    /\ ret' = [fn |-> "_detect_feature_language",
               language |-> _detect_feature_language(call.impacted_files,
                                                     call.file_tree)]
    /\ UNCHANGED <<call, mainVars>>

SpecLanguage == InitLanguage /\ [][detects_language]_vars

----------------------------------------------------------------------------
(* Verification.  The output of a command is modelled by its length in     *)
(* characters; the outputs drawn carry no surrounding whitespace.          *)

\* stderr[:1000]
STDERR_LIMIT == 1000

MaxOutput == 5000

OutputLens == {0, 1, STDERR_LIMIT, STDERR_LIMIT + 1, MaxOutput}

ExitCodes == {0, 1}

\* len("Command timed out after 120s")
TIMEOUT_TEXT_LEN == 28

\* how subprocess.run ends: it completes, raises TimeoutExpired or raises
\* another exception
SubprocessOutcomes(stdouts) ==
    [kind : {"completed"}, exit_code : ExitCodes, stdout : stdouts,
     stderr : OutputLens]
    \cup [kind : {"timeout"}]
    \cup [kind : {"error"}, message : OutputLens]

\* a timeout counts as a clean exit with no output
_run_command_SwallowsTimeout(o) ==
    CASE o.kind = "completed" ->
           [exit_code |-> o.exit_code, stdout |-> o.stdout, stderr |-> o.stderr,
            timeout_text |-> FALSE, outcome |-> o.kind]
      [] o.kind = "timeout" ->
           [exit_code |-> 0, stdout |-> 0, stderr |-> 0,
            timeout_text |-> FALSE, outcome |-> o.kind]
      [] OTHER ->
           [exit_code |-> 1, stdout |-> 0, stderr |-> o.message,
            timeout_text |-> FALSE, outcome |-> o.kind]

\* what _run_command returns: (exit_code, stdout, stderr). timeout_text
\* tells whether stderr is the text "Command timed out after ...s";
\* outcome remembers how the subprocess ended
_run_command(o) ==
    CASE o.kind = "completed" ->
           [exit_code |-> o.exit_code, stdout |-> o.stdout, stderr |-> o.stderr,
            timeout_text |-> FALSE, outcome |-> o.kind]
      [] o.kind = "timeout" ->
           [exit_code |-> 1, stdout |-> 0, stderr |-> TIMEOUT_TEXT_LEN,
            timeout_text |-> TRUE, outcome |-> o.kind]
      [] OTHER ->
           [exit_code |-> 1, stdout |-> 0, stderr |-> o.message,
            timeout_text |-> FALSE, outcome |-> o.kind]

CommandResults == {_run_command(o) : o \in SubprocessOutcomes(OutputLens)}

\* npm prints its errors on stderr; its stdout is discarded by the caller
NpmResults == {_run_command(o) : o \in SubprocessOutcomes({0, MaxOutput})}

NPM_CHECKS == {"test", "lint", "typecheck"}

\* s[:limit]
Truncate(n, limit) == IF n > limit THEN limit ELSE n

\* (stdout + "\n" + stderr).strip()
JoinedLines(r) ==
    IF r.stdout = 0 THEN r.stderr
    ELSE IF r.stderr = 0 THEN r.stdout
    ELSE r.stdout + 1 + r.stderr

\* (stdout + stderr).strip()
Joined(r) == r.stdout + r.stderr

\* for check in ["test", "lint", "typecheck"]
NPM_CHECK_ORDER == <<"test", "lint", "typecheck">>

\* the checks of a language, in the order they are tried
CheckOrder(language) ==
    CASE language = "python" -> <<"pytest">>
      [] language = "java"   -> <<"test">>
      [] OTHER               -> NPM_CHECK_ORDER

\* the subsequence of the checks that satisfy a condition
Those(order, wanted) ==
    LET Wanted(c) == c \in wanted IN SelectSeq(order, Wanted)

RECURSIVE UpToFirstFailure(_, _)
\* the checks run when the first failure ends the verification
UpToFirstFailure(order, results) ==
    IF order = <<>> THEN <<>>
    ELSE IF results[Head(order)].exit_code # 0 THEN <<Head(order)>>
    ELSE <<Head(order)>> \o UpToFirstFailure(Tail(order), results)

\* the npm checks stop at the first failure
_run_verification_ShortCircuit(language, results) ==
    LET commands == UpToFirstFailure(Those(CheckOrder(language), DOMAIN results),
                                     results)
        failing == {c \in DOMAIN results :
                      /\ results[c].exit_code # 0
                      /\ \E i \in 1..Len(commands) : commands[i] = c} IN
    [passed |-> failing = {},
     commands |-> commands,
     sections |-> Those(commands, failing),
     timeout_text |-> \E c \in failing :
                        /\ results[c].timeout_text
                        /\ language \notin {"python", "java"} =>
                              results[c].stderr <= STDERR_LIMIT,
     embedded |-> [c \in failing |->
                     CASE language = "python" -> JoinedLines(results[c])
                       [] language = "java"   -> Joined(results[c])
                       [] OTHER -> Truncate(results[c].stderr, STDERR_LIMIT)]]

\* (passed, error_output): commands are the checks run, in order; sections
\* are the failed checks whose output error_output holds, in order;
\* embedded is the length of the command output embedded for each of them
_run_verification(language, results) ==
    LET commands == Those(CheckOrder(language), DOMAIN results)
        failing == {c \in DOMAIN results : results[c].exit_code # 0} IN
    [passed |-> failing = {},
     commands |-> commands,
     sections |-> Those(commands, failing),
     timeout_text |-> \E c \in failing :
                        /\ results[c].timeout_text
                        /\ language \notin {"python", "java"} =>
                              results[c].stderr <= STDERR_LIMIT,
     embedded |-> [c \in failing |->
                     CASE language = "python" -> JoinedLines(results[c])
                       [] language = "java"   -> Joined(results[c])
                       [] OTHER -> Truncate(results[c].stderr, STDERR_LIMIT)]]

VerificationCalls ==
    {[fn |-> "_run_verification", language |-> "python", results |-> r] :
        r \in [{"pytest"} -> CommandResults]}
    \cup
    {[fn |-> "_run_verification", language |-> "java", results |-> r] :
        r \in [{"test"} -> CommandResults]}
    \cup
    {[fn |-> "_run_verification", language |-> "typescript", results |-> r] :
        r \in UNION {[scripts -> NpmResults] : scripts \in SUBSET NPM_CHECKS}}

InitVerification ==
    /\ InitRun
    /\ call \in VerificationCalls
    /\ ret = NoCall

\* the loop awaits the verification of one iteration
runs_verification ==
    /\ call.fn = "_run_verification" /\ ret = NoCall
    /\ ret' = [fn |-> "_run_verification",
               result |-> _run_verification(call.language, call.results)]
    /\ UNCHANGED <<call, mainVars>>

SpecVerification == InitVerification /\ [][runs_verification]_vars

\* _invoke_claude_code as a function of how the subprocess ends: what it
\* returns, the rows it logs and the number of times it starts the agent
_invoke_claude_code(r) ==
    [returns |-> IF AgentFatal(r) THEN "raises"
                 ELSE IF r = "ok" THEN "True" ELSE "False",
     rows |-> AgentRows(<<>>, r),
     spawned |-> IF AgentFatal(r) THEN 0 ELSE 1]

InitTimeouts ==
    /\ InitRun
    /\ call \in VerificationCalls
                \cup {[fn |-> "_invoke_claude_code", outcome |-> r] :
                         r \in AgentResults}
    /\ ret = NoCall

\* the loop awaits the agent invocation of one iteration
invokes_agent ==
    /\ call.fn = "_invoke_claude_code" /\ ret = NoCall
    /\ ret' = [fn |-> "_invoke_claude_code",
               result |-> _invoke_claude_code(call.outcome)]
    /\ UNCHANGED <<call, mainVars>>

SpecTimeouts == InitTimeouts /\ [][runs_verification \/ invokes_agent]_vars

----------------------------------------------------------------------------
(* The structured LLM call.  The API is given by what it would answer to   *)
(* the first, second, ... request.                                          *)

\* an answer of the API: a schema-valid JSON text, a text that is not JSON,
\* JSON that fails validation, a transient API error, another API error,
\* a message with no content
LlmAnswers == {"valid", "malformed", "schema_invalid", "transient", "fatal",
               "no_content"}

MaxRetries == 2

\* one answer more than the budget of the largest max_retries
LlmScripts == [1..(MaxRetries + 2) -> LlmAnswers]

\* every API error is retried
_is_transient_Any(answer) == answer \in {"transient", "fatal"}

\* RateLimitError, APIConnectionError, APITimeoutError, InternalServerError
_is_transient(answer) == answer = "transient"

RECURSIVE Attempt(_, _, _)
\* the body of `for attempt in range(max_retries + 1)`; requests counts the
\* calls of chat.completions.create
Attempt(answers, max_retries, attempt) ==
    IF attempt > max_retries
    THEN [outcome |-> "ValueError", requests |-> attempt]
    ELSE LET answer == answers[attempt + 1] IN
         IF answer \in {"transient", "fatal"}
         THEN IF _is_transient(answer) /\ attempt < max_retries
              THEN Attempt(answers, max_retries, attempt + 1)
              ELSE [outcome |-> "APIError", requests |-> attempt + 1]
         ELSE IF answer = "no_content"
         THEN \* json.loads(None) raises TypeError, which is not caught
              [outcome |-> "TypeError", requests |-> attempt + 1]
         ELSE IF answer = "valid"
         THEN [outcome |-> "returned", requests |-> attempt + 1]
         ELSE IF attempt = max_retries
              THEN [outcome |-> "ValueError", requests |-> attempt + 1]
              ELSE Attempt(answers, max_retries, attempt + 1)

call_llm_structured(answers, max_retries) == Attempt(answers, max_retries, 0)

InitLlm ==
    /\ InitRun
    /\ call \in {[fn |-> "call_llm_structured", answers |-> a, max_retries |-> m] :
                    a \in LlmScripts, m \in 0..MaxRetries}
    /\ ret = NoCall

\* the plan phase and the retry await a structured LLM call
calls_llm ==
    /\ call.fn = "call_llm_structured" /\ ret = NoCall
    /\ ret' = [fn |-> "call_llm_structured",
               result |-> call_llm_structured(call.answers, call.max_retries)]
    /\ UNCHANGED <<call, mainVars>>

SpecLlm == InitLlm /\ [][calls_llm]_vars

\* ========================================================================
\* Properties
\* ========================================================================

\* the phase handlers that have started and not yet returned
Executing == {t \in Live : t.pc # "start"}

\* C1: at most one phase handler is executing for the run at any time.
C1_OnePhaseAtATime ==
    /\ Cardinality(Executing) <= 1
    /\ \A t \in Executing : CopiesIn(t, tasks) = 1

\* C2: in one execution of the build phase or of the retry action the agent
\* is invoked at most max_fix_iterations + 1 times.
C2_AgentInvocationsBounded ==
    /\ \A t \in Live : t.agentCalls <= max_fix_iterations + 1
    /\ finished.agentCalls <= max_fix_iterations + 1

\* C2 witness: an execution ended having invoked the agent exactly
\* max_fix_iterations + 1 times.
C2_Witness ==
    /\ finished.kind \in {"build", "retry"}
    /\ finished.outcome = "exhausted"
    /\ finished.agentCalls = max_fix_iterations + 1

\* C3: the status becomes pushing, and later done, only by an execution in
\* which a verification call has returned success.
C3_PushingOnlyAfterVerified ==
    [][ /\ (status' = "pushing" /\ status # "pushing")
            => \E t \in BagToSet(tasks') : t.pc = "push" /\ t.okVerifies >= 1
        /\ \A t \in BagToSet(tasks') : t.pc = "push" => t.okVerifies >= 1
        /\ (status' = "done" /\ status # "done")
            => /\ finished'.outcome = "done"
               /\ finished'.okVerifies >= 1
        /\ finished'.outcome = "done" => finished'.okVerifies >= 1 ]_vars

\* C3 witness: the run is pushing after a failed and then a successful
\* verification of the same execution.
C3_Witness ==
    /\ status = "pushing"
    /\ \E t \in Live : t.pc = "push" /\ t.verifyCalls = 2 /\ t.okVerifies = 1

\* C4: the startup sweep turns every run in queued, cloning, planning,
\* testing, building, verifying or pushing to failed with at least one new
\* log row, and leaves a run in awaiting_approval, done or failed untouched.
C4_RecoverySweep ==
    [][ started' =>
          /\ status \in {"queued", "cloning", "planning", "testing",
                         "building", "verifying", "pushing"}
               => status' = "failed" /\ Len(logged') >= 1
          /\ status \in {"awaiting_approval", "done", "failed"}
               => UNCHANGED runFields /\ logged' = <<>> ]_vars

\* C4 witness: a sweep has just recovered a run interrupted in the third
\* iteration of its build loop.
C4_Witness ==
    /\ started
    /\ status = "failed"
    /\ logged = <<Entry("startup", "recovered", "warn")>>
    /\ pushCalls = 0
    /\ iteration_count = 2

\* C5: an abandon request on a run that is not failed is rejected and leaves
\* the status, the sandbox and the log unchanged.
C5_AbandonOnlyWhenFailed ==
    [][ (resp'.req = "abandon" /\ status # "failed")
          => /\ resp'.code = 400
             /\ UNCHANGED <<status, sandboxDir>>
             /\ logged' = <<>> ]_vars

\* C6: approve is accepted only in awaiting_approval and retry only in
\* failed; otherwise the request is rejected with an error, no background
\* phase is scheduled and no field of the run changes.
C6_ApproveRetryGated ==
    [][ /\ (resp'.req = "approve")
            => IF status = "awaiting_approval"
               THEN resp'.code = 200 /\ tasks' = tasks (+) One(NewTask("build"))
               ELSE /\ resp'.code = 400
                    /\ UNCHANGED <<runFields, tasks>>
                    /\ logged' = <<>>
        /\ (resp'.req = "retry")
            => IF status = "failed"
               THEN resp'.code = 200 /\ tasks' = tasks (+) One(NewTask("retry"))
               ELSE /\ resp'.code = 400
                    /\ UNCHANGED <<runFields, tasks>>
                    /\ logged' = <<>>
        /\ CopiesIn(NewTask("build"), tasks') > CopiesIn(NewTask("build"), tasks)
            => status = "awaiting_approval" /\ resp' = Response("approve", 200)
        /\ CopiesIn(NewTask("retry"), tasks') > CopiesIn(NewTask("retry"), tasks)
            => status = "failed" /\ resp' = Response("retry", 200) ]_vars

\* C6 witness: an approve request was just rejected on a failed run while a
\* retry request had been accepted before.
C6_Witness ==
    /\ resp = Response("approve", 400)
    /\ status = "failed"
    /\ \E t \in Live : t.kind = "retry"

\* C7: once the status is done no step changes it.
C7_DoneIsTerminal == [][status = "done" => status' = "done"]_vars

\* the edges the status may follow
AllowedEdges ==
    {<<"queued", "cloning">>, <<"cloning", "planning">>, <<"planning", "testing">>,
     <<"testing", "awaiting_approval">>, <<"awaiting_approval", "building">>,
     <<"building", "verifying">>, <<"verifying", "building">>,
     <<"verifying", "pushing">>, <<"pushing", "done">>,
     <<"awaiting_approval", "planning">>, <<"failed", "building">>}
    \cup {<<s, "failed">> : s \in Statuses \ {"done", "failed"}}

\* C8: every change of the status follows an allowed edge.
C8_AllowedTransitions ==
    [][status' # status => <<status, status'>> \in AllowedEdges]_vars

\* C9: an execution whose every verification failed ends with the run failed,
\* the sandbox still on disk, no commit/push/PR call and pr_url unset.
C9_ExhaustedKeepsSandbox ==
    finished.outcome = "exhausted"
        => /\ status = "failed"
           /\ sandboxExists
           /\ pushCalls = 0 /\ prCalls = 0
           /\ pr_url = NULL

\* C10: an execution whose verification failed on iterations 0..k-1 and
\* passed on iteration k ends with the run done, k+1 agent invocations, k+1
\* verification calls and iteration_count = k.
C10_SuccessAtIterationK ==
    finished.outcome = "done"
        => /\ status = "done"
           /\ finished.agentCalls = finished.iteration + 1
           /\ finished.verifyCalls = finished.iteration + 1
           /\ iteration_count = finished.iteration

\* the position of the plan phase handler ("none" when no plan task is live)
PlanPc ==
    IF \E t \in Live : t.kind = "plan"
    THEN (CHOOSE t \in Live : t.kind = "plan").pc
    ELSE "none"

C14_FeedbackOnlyWhenAwaiting ==
    [][ (resp'.req = "plan-feedback" /\ status # "awaiting_approval") =>
             UNCHANGED <<runFields, tasks>>
      ]_vars

\* C14 (amended): a plan-feedback request on a run whose status is not
\* awaiting_approval starts no regeneration and leaves status, sandbox, branch,
\* plan, PR fields and iteration count unchanged; it is rejected (400, nothing
\* recorded) when the rating is invalid or the run has no plan, and otherwise
\* accepted, recording only the rating and the comment.
C14_FeedbackElsewhereOnlyRecords ==
    [][ (resp'.req = "plan-feedback" /\ status # "awaiting_approval") =>
             /\ UNCHANGED <<status, sandbox_path, branch_name, plan_md, pr_url,
                            pr_merged, iteration_count, tasks, sandboxDir>>
             /\ resp'.code = 400 =>
                    UNCHANGED <<plan_feedback_rating, plan_feedback_comment>>
             /\ resp'.code = 200 =>
                    /\ plan_md \notin {NULL, ""}
                    /\ plan_feedback_rating' \in {"positive", "negative"}
             /\ resp'.code \in {200, 400}
      ]_vars

\* C14 witness: a rating has just been recorded on a run that is building, and
\* no regeneration was scheduled.
C14_Witness ==
    /\ resp = Response("plan-feedback", 200)
    /\ status = "building"
    /\ plan_feedback_rating = "positive"
    /\ \A t \in Live : t.kind # "regen"

\* C15: mark-merged is idempotent: a notification on a done run that is already
\* marked merged is answered 200 and changes neither the run record nor the
\* feature nodes and edges; one node and one edge exist exactly when the run
\* is marked merged, however many notifications were accepted.
C15_MergeIdempotent ==
    [][ /\ (resp'.req = "on-merged" /\ status = "done" /\ pr_merged) =>
             /\ resp'.code = 200
             /\ UNCHANGED <<runFields, feature_nodes, feature_edges>>
        /\ feature_nodes' = (IF pr_merged' THEN 1 ELSE 0)
        /\ feature_edges' = (IF pr_merged' THEN 1 ELSE 0)
      ]_vars

\* C15 witness: two merge notifications were accepted for the run.
C15_Witness ==
    /\ mergeCalls = 2
    /\ status = "done" /\ pr_merged
    /\ resp = Response("on-merged", 200)
    /\ feature_nodes = 1 /\ feature_edges = 1

\* C16: pr_merged becomes true only by a mark-merged request accepted on a run
\* whose status is done; the request is rejected (400, nothing changes) in
\* every other status; once true, pr_merged is never false again.
C16_MergedFlagOneWay ==
    [][ /\ (pr_merged' /\ ~pr_merged) =>
             status = "done" /\ resp' = Response("on-merged", 200)
        /\ (resp'.req = "on-merged" /\ status # "done") =>
             /\ resp'.code = 400
             /\ UNCHANGED <<runFields, feature_nodes, feature_edges>>
        /\ pr_merged => pr_merged'
      ]_vars

\* C16 witness: a run that was marked merged while done has been written to
\* afterwards (an abandon request) and is still marked merged.
C16_Witness ==
    /\ resp = Response("abandon", 200)
    /\ status = "failed"
    /\ mergeCalls = 1
    /\ pr_merged

\* C17: an abandon request on a failed run leaves no sandbox directory of the
\* run on disk, leaves the status failed and inserts exactly one log row, the
\* abandonment entry.
C17_AbandonRemovesSandbox ==
    [][ (resp'.req = "abandon" /\ status = "failed") =>
             /\ resp'.code = 200
             /\ sandboxDir' = "absent"
             /\ status' = "failed"
             /\ logged' = <<Entry("done", "abandoned", "info")>>
      ]_vars

\* C18: abandonment is terminal: once an abandon request has been served for
\* the run, its status is failed in every later state.
C18_AbandonIsTerminal == abandoned => status = "failed"

\* C19: the sandbox directory of a run disappears from disk only in an abandon
\* request or in the step of a build or retry that has opened the pull request
\* and recorded pr_url; a plan, build or retry that fails keeps it.
C19_SandboxRemovedOnlyAfterPr ==
    [][ /\ (sandboxDir # "absent" /\ sandboxDir' = "absent") =>
             \/ resp'.req = "abandon" /\ abandoned'
             \/ /\ finished'.outcome = "done"
                /\ pr_url' = PR_URL /\ prCalls' = prCalls + 1
        /\ finished'.outcome \in {"raised", "exhausted", "nosandbox"} =>
             (sandboxDir # "absent" => sandboxDir' # "absent")
      ]_vars

\* C19 witness: a build whose push raised after a verified iteration has just
\* failed and its sandbox is still on disk; no abandon was requested.
C19_Witness ==
    /\ finished.outcome = "raised" /\ finished.okVerifies = 1
    /\ logged = <<Entry("error", "pr", "error")>>
    /\ status = "failed"
    /\ sandboxDir = "repo"
    /\ ~abandoned

\* C20: on loop success the status goes verifying, pushing, done in that order:
\* pushing is written over verifying and done over pushing; pr_url is recorded
\* in the update that writes done and in no other; the handler removes the
\* sandbox only in the step that has persisted done; and the run is done
\* whether or not the removal succeeded.
C20_PushThenDone ==
    [][ /\ (status' = "pushing" /\ status # "pushing") => status = "verifying"
        /\ (status' = "done" /\ status # "done") =>
             /\ status = "pushing"
             /\ finished'.outcome = "done"
        /\ pr_url' # pr_url => status' = "done" /\ finished'.outcome = "done"
        /\ finished'.outcome = "done" =>
             /\ status' = "done"
             /\ pr_url' = PR_URL
        /\ (finished'.pc = "exit" /\ sandboxDir # "absent" /\ sandboxDir' = "absent") =>
             status' = "done"
      ]_vars

\* the number of line feeds of a text
RECURSIVE CountLF(_)
CountLF(data) ==
    IF data = <<>> THEN 0
    ELSE (IF Head(data) = "LF" THEN 1 ELSE 0) + CountLF(Tail(data))

\* a file content with every CR LF pair read as one LF
RECURSIVE UndoCRLF(_)
UndoCRLF(bytes) ==
    IF Len(bytes) < 2 THEN bytes
    ELSE IF bytes[1] = "CR" /\ bytes[2] = "LF"
    THEN <<"LF">> \o UndoCRLF(Tail(Tail(bytes)))
    ELSE <<Head(bytes)>> \o UndoCRLF(Tail(bytes))

\* C21 (as claimed): the content of Plan.md written by the retry action, read
\* back, is identical to the persisted plan_md the retry read.
C21_PlanFileRoundTrip ==
    ret.fn = "write_text" => ret.bytes = call.data

\* C21 (amended): Plan.md is identical to plan_md on a POSIX host; on a Windows
\* host every line feed of plan_md is written as CR LF (the file is longer by
\* the number of line feeds) and reading each CR LF as LF gives plan_md back.
C21_PlanFileUpToLinesep ==
    ret.fn = "write_text" =>
        /\ call.platform = "posix" => ret.bytes = call.data
        /\ call.platform = "win32" =>
              /\ Len(ret.bytes) = Len(call.data) + CountLF(call.data)
              /\ UndoCRLF(ret.bytes) = call.data

\* C21 witness: a two-line plan has been written on a Windows host.
C21_Witness ==
    /\ ret.fn = "write_text"
    /\ call.platform = "win32"
    /\ call.data = <<"a", "LF", "a">>
    /\ ret.bytes = <<"a", "CR", "LF", "a">>

\* a step of a retry handler (one of its task records leaves the bag)
RetryStep ==
    /\ ~started'
    /\ \E t \in Live : t.kind = "retry" /\ CopiesIn(t, tasks') < CopiesIn(t, tasks)

\* C22: no step of a retry changes sandbox_path or branch_name or turns the
\* sandbox directory into a fresh clone; the step that enters the loop writes
\* building with iteration_count 0 and starts the loop at iteration 0 with no
\* agent call made yet.
C22_RetryReusesSandbox ==
    [][ RetryStep =>
          /\ UNCHANGED <<sandbox_path, branch_name>>
          /\ sandboxDir' = "repo" => sandboxDir = "repo"
          /\ (\E t \in Live : /\ t.kind = "retry" /\ t.pc = "tests"
                                /\ CopiesIn(t, tasks') < CopiesIn(t, tasks)
                                /\ finished' = NoTask) =>
                /\ status' = "building"
                /\ iteration_count' = 0
                /\ \E t2 \in BagToSet(tasks') :
                       /\ t2.kind = "retry" /\ t2.pc = "agent"
                       /\ t2.iteration = 0 /\ t2.agentCalls = 0
      ]_vars

\* C22 witness: a retry has just regenerated the test file and entered the loop
\* on the sandbox and branch of the plan phase.
C22_Witness ==
    /\ \E t \in Live : t.kind = "retry" /\ t.pc = "agent" /\ t.agentCalls = 0
    /\ status = "building"
    /\ iteration_count = 0
    /\ sandbox_path = SANDBOX /\ branch_name = BRANCH
    /\ logged = <<Entry("tests", "regenerated", "info"),
                  Entry("build", "retrying", "info"),
                  Entry("build", "invoking", "info")>>

\* C23: a build or retry handler that starts on a run whose sandbox_path is
\* unset or whose sandbox directory does not exist ends in that step with
\* status failed and an 'error' log row, having made no agent call, no
\* verification call, no commit/push and no pull request.
C23_SandboxMissing ==
    [][ (\E t \in Live : /\ t.kind \in {"build", "retry"} /\ t.pc = "start"
                          /\ CopiesIn(t, tasks') < CopiesIn(t, tasks)
                          /\ ~started'
                          /\ (sandbox_path = NULL \/ sandboxDir = "absent")) =>
          /\ status' = "failed"
          /\ \E i \in 1..Len(logged') :
                 logged'[i].step = "error" /\ logged'[i].level = "error"
          /\ finished'.pc = "exit" /\ finished'.outcome = "nosandbox"
          /\ finished'.agentCalls = 0 /\ finished'.verifyCalls = 0
          /\ UNCHANGED <<pushCalls, prCalls, pr_url, sandboxDir>>
      ]_vars

\* C23 witness: an approved build has just found its sandbox directory gone
\* (the path is still recorded on the run).
C23_Witness ==
    /\ finished.kind = "build" /\ finished.outcome = "nosandbox"
    /\ status = "failed"
    /\ sandbox_path = SANDBOX /\ sandboxDir = "absent"
    /\ logged = <<Entry("error", "sandbox missing", "error")>>

\* the agent invocation of the last step failed inside the CLI: non-zero exit,
\* timeout or executable not found (the row _invoke_claude_code writes)
AgentFailedRow(rows) ==
    \E i \in 1..Len(rows) :
        rows[i].step = "claude_code" /\ rows[i].level = "error"

\* C24: an agent failure is a soft signal. Every agent invocation that returns
\* (success, non-zero exit, timeout, executable not found) is followed by
\* exactly one verification call before the next agent invocation or the end
\* of the loop, and the step in which the agent fails does not move the run to
\* failed.
C24_AgentFailureIsSoft ==
    /\ [](\A t \in Live : t.kind \in {"build", "retry"} =>
              t.agentCalls = t.verifyCalls + (IF t.pc = "verify" THEN 1 ELSE 0))
    /\ [](finished.outcome \in {"exhausted", "done"} \/ finished.okVerifies > 0 =>
              finished.agentCalls = finished.verifyCalls)
    /\ [][ /\ AgentFailedRow(logged') =>
               /\ status' = "verifying"
               /\ finished' = NoTask
           /\ \A t \in Live :
                 (/\ t.kind \in {"build", "retry"} /\ t.pc = "agent"
                  /\ CopiesIn(t, tasks') < CopiesIn(t, tasks)
                  /\ ~started' /\ finished' = NoTask) =>
                 /\ [t EXCEPT !.pc = "verify", !.agentCalls = @ + 1] \in BagToSet(tasks')
                 /\ status' = "verifying"
       ]_vars

\* C24 witness: the agent has failed twice (the second time by timing out),
\* each failure was followed by one verification, and the run is verifying.
C24_Witness ==
    /\ status = "verifying"
    /\ \E i \in 1..Len(logged) :
          logged[i] = Entry("claude_code", "timed out", "error")
    /\ \E t \in Live : t.pc = "verify" /\ t.agentCalls = 2 /\ t.verifyCalls = 1

Languages == {"python", "typescript", "java"}

\* C26: language detection is total: for every list of hinted files and every
\* file tree (empty hints, a tree without source files, exact ties) the result
\* is one of python, typescript, java.
C26_DetectLanguageTotal ==
    ret.fn = "_detect_feature_language" => ret.language \in Languages

\* C26 witness: the hints tie (one TypeScript file, one Java file), the tree
\* has no source file at all, and a language was returned.
C26_Witness ==
    /\ ret.fn = "_detect_feature_language"
    /\ call.impacted_files = << <<"a", ".", "t", "s">>,
                                <<"A", ".", "j", "a", "v", "a">> >>
    /\ call.file_tree = << <<"a", ".", "p", "y", "c">> >>
    /\ ret.language = "python"

\* C27: with three hinted files of which at least two end in .py the result
\* is python whatever the file tree contains.
C27_TwoOfThreePython ==
    (/\ ret.fn = "_detect_feature_language"
     /\ Len(call.impacted_files) = 3
     /\ CountSuffix(call.impacted_files, PY_SUFFIXES) >= 2)
    => ret.language = "python"

\* C27 witness: two of three hints are Python files, the tree holds Java
\* files only, and python was returned.
C27_Witness ==
    /\ ret.fn = "_detect_feature_language"
    /\ call.impacted_files = << <<"a", ".", "p", "y">>,
                                <<"a", ".", "j", "s", "x">>,
                                <<"a", ".", "p", "y">> >>
    /\ call.file_tree = << <<"A", ".", "j", "a", "v", "a">>,
                           <<"A", ".", "j", "a", "v", "a">> >>
    /\ ret.language = "python"

InFlight == {"cloning", "planning", "testing", "building", "verifying", "pushing"}

Settled == {"awaiting_approval", "done", "failed"}

\* C25: every execution of the plan phase, the build phase or the retry
\* action terminates: when each external call returns, fails or times out,
\* the handlers that are running all return, and a run in cloning, planning,
\* testing, building, verifying or pushing reaches awaiting_approval, done or
\* failed.
C25_RunTerminates ==
    /\ (status \in InFlight) ~> (status \in Settled)
    /\ (tasks # EmptyBag) ~> (tasks = EmptyBag)

\* C25 witness: a build used every iteration of the loop, returned and left
\* the run failed with no handler running.
C25_Witness ==
    /\ finished.kind = "build" /\ finished.outcome = "exhausted"
    /\ finished.iteration = max_fix_iterations + 1
    /\ finished.agentCalls = max_fix_iterations + 1
    /\ status = "failed" /\ tasks = EmptyBag

\* C28: the agent is invoked at iteration 0 with the from-scratch prompt and
\* at every iteration i >= 1 with the fix prompt that embeds, whole, the
\* diagnostic output of the verification call of iteration i - 1; in a retry
\* the error context of the earlier attempt is in the prompt of iteration 0
\* only, and a build has none.
C28_PromptPerIteration ==
    \A t \in Live :
        (t.kind \in {"build", "retry"} /\ t.pc = "agent") =>
            /\ t.iteration = 0 =>
                  /\ t.prompt.template = "implement"
                  /\ t.prompt.verify_error = NoError
                  /\ t.prompt.error_context =
                        (IF t.kind = "retry" THEN ERROR_CONTEXT ELSE NO_CONTEXT)
            /\ t.iteration >= 1 =>
                  /\ t.prompt.template = "fix"
                  /\ t.prompt.verify_error = verify_error(t.iteration - 1)
                  /\ t.prompt.error_context = NO_CONTEXT
                  /\ t.verifyCalls = t.iteration

\* C28 witness: a retry is about to invoke the agent for the third time, with
\* the diagnostics of its second verification.
C28_Witness ==
    \E t \in Live :
        /\ t.kind = "retry" /\ t.pc = "agent" /\ t.iteration = 2
        /\ t.prompt = FixPrompt(verify_error(1))
        /\ status = "building"

\* C29: the diagnostic text that verification hands to the next prompt is
\* bounded: for every language the output of each failing check is cut to a
\* fixed maximum of the order of 1-2 KB (at most twice the limit the npm
\* checks use).
C29_DiagnosticsBounded ==
    ret.fn = "_run_verification" =>
        \A c \in DOMAIN ret.result.embedded :
            ret.result.embedded[c] <= 2 * STDERR_LIMIT

\* C30: at most one pull request is opened per run: over every sequence and
\* interleaving of approve, retry, abandon and plan-feedback requests,
\* commit-and-push and open-pull-request are each called at most once.
C30_AtMostOnePullRequest ==
    pushCalls <= 1 /\ prCalls <= 1

\* C31: whenever the agent is invoked in the build phase, the Plan.md file in
\* the sandbox has the content of the persisted plan_md, also after the user
\* edited the plan while the run was awaiting approval.
C31_PlanFileMatchesPlan ==
    \A t \in Live :
        (t.kind = "build" /\ t.pc = "agent") => planFile = plan_md

\* C32: verification reports passed only if at least one check command was
\* run and exited with code 0; a typescript/javascript project with none of
\* the scripts test, lint, typecheck known is not reported as passed.
C32_PassNeedsACheck ==
    (ret.fn = "_run_verification" /\ ret.result.passed) =>
        \E c \in DOMAIN call.results : call.results[c].exit_code = 0

\* C33: for every failed run whose sandbox still exists, whatever phase it
\* failed in, an accepted retry goes on to regenerate the tests (and from
\* there, if that succeeds, to status building and the agent): the retry
\* handler does not end in its first step.
C33_RetryProceeds ==
    [][ \A t \in Live :
          (/\ t.kind = "retry" /\ t.pc = "start"
           /\ CopiesIn(t, tasks') < CopiesIn(t, tasks)
           /\ ~started'
           /\ sandbox_path # NULL /\ sandboxDir # "absent") =>
              /\ finished' = NoTask
              /\ [t EXCEPT !.pc = "tests"] \in BagToSet(tasks')
      ]_vars

\* C34: the persisted iteration_count is always in 0..max_fix_iterations. It
\* changes only in a step that starts a loop iteration, to the index of that
\* iteration, a retry entering the loop stores 0, and the exhausted loop
\* does not store max_fix_iterations + 1.
C34_IterationCountInRange ==
    /\ [](iteration_count \in 0..max_fix_iterations)
    /\ [][ /\ iteration_count' # iteration_count =>
               /\ status' = "building"
               /\ \E t \in BagToSet(tasks') :
                     t.pc = "agent" /\ t.iteration = iteration_count'
           /\ finished'.outcome = "exhausted" =>
               /\ iteration_count' = iteration_count
               /\ finished'.iteration = max_fix_iterations + 1
           /\ (\E t \in Live :
                 LET t2 == [t EXCEPT !.pc = "agent",
                                     !.prompt = LoopPrompt("retry", 0, NoError)]
                 IN  /\ t.kind = "retry" /\ t.pc = "tests"
                     /\ CopiesIn(t, tasks') < CopiesIn(t, tasks)
                     /\ CopiesIn(t2, tasks') > CopiesIn(t2, tasks)) =>
               iteration_count' = 0
       ]_vars

\* C34 witness: the loop is exhausted after max_fix_iterations + 1 attempts
\* and the stored count is the index of the last one.
C34_Witness ==
    /\ finished.outcome = "exhausted"
    /\ finished.iteration = max_fix_iterations + 1
    /\ iteration_count = max_fix_iterations
    /\ status = "failed"

\* C35: typescript/javascript verification runs every one of test, lint,
\* typecheck that is in the script map, in that order and without stopping
\* at a failure; it passes exactly when every check it ran exited with 0 and
\* otherwise reports one diagnostic section per failed check, in order.
C35_NpmChecksAllRun ==
    (ret.fn = "_run_verification" /\ call.language = "typescript") =>
        LET InMap(c) == c \in DOMAIN call.results
            Failed(c) == c \in DOMAIN call.results /\ call.results[c].exit_code # 0
        IN  /\ ret.result.commands = SelectSeq(<<"test", "lint", "typecheck">>, InMap)
            /\ ret.result.passed =
                  (\A c \in DOMAIN call.results : call.results[c].exit_code = 0)
            /\ ret.result.sections = SelectSeq(<<"test", "lint", "typecheck">>, Failed)
            /\ DOMAIN ret.result.embedded = {c \in NPM_CHECKS : Failed(c)}

\* C35 witness: all three scripts are known, test and typecheck fail, lint
\* passes; all three were run and two sections are reported.
C35_Witness ==
    /\ ret.fn = "_run_verification" /\ call.language = "typescript"
    /\ DOMAIN call.results = NPM_CHECKS
    /\ call.results["test"].exit_code = 1
    /\ call.results["lint"].exit_code = 0
    /\ call.results["typecheck"].exit_code = 1
    /\ ret.result.commands = <<"test", "lint", "typecheck">>
    /\ ret.result.sections = <<"test", "typecheck">>
    /\ ~ret.result.passed

\* C36: timeouts are never swallowed. A verification command that exceeds
\* its timeout counts as a non-zero exit whose output is the timeout text,
\* so verification returns failed with that text in its diagnostics; an
\* agent subprocess that exceeds its timeout makes the invocation return
\* failure with a 'timed out' error row, the agent having been started once.
C36_TimeoutsSurface ==
    /\ ret.fn = "_run_verification" =>
          \A c \in DOMAIN call.results :
              call.results[c].outcome = "timeout" =>
                  /\ call.results[c].exit_code # 0
                  /\ call.results[c].timeout_text
                  /\ ~ret.result.passed
                  /\ ret.result.timeout_text
                  /\ \E i \in 1..Len(ret.result.sections) : ret.result.sections[i] = c
    /\ (ret.fn = "_invoke_claude_code" /\ call.outcome = "timeout") =>
          /\ ret.result.returns = "False"
          /\ ret.result.spawned = 1
          /\ \E i \in 1..Len(ret.result.rows) :
                ret.result.rows[i] = Entry("claude_code", "timed out", "error")

\* C36 witness: of the three npm checks lint timed out and the others
\* passed; verification failed with the timeout text as its only section.
C36_Witness ==
    /\ ret.fn = "_run_verification" /\ call.language = "typescript"
    /\ DOMAIN call.results = NPM_CHECKS
    /\ call.results["test"].exit_code = 0
    /\ call.results["lint"].outcome = "timeout"
    /\ call.results["typecheck"].exit_code = 0
    /\ ~ret.result.passed
    /\ ret.result.sections = <<"lint">>
    /\ ret.result.timeout_text
    /\ ret.result.embedded["lint"] = TIMEOUT_TEXT_LEN

\* answers that are retried against the budget: malformed or schema-invalid
\* output, and transient API errors
InvalidOutput == {"malformed", "schema_invalid"}

Retried == InvalidOutput \cup {"transient"}

\* C37: the structured LLM call makes at most max_retries + 1 requests,
\* transient API errors and invalid output counting against the same budget;
\* it returns the first schema-valid result, makes exactly max_retries + 1
\* requests and then raises when every answer is invalid, and raises at once
\* on a non-transient API error.
C37_LlmRetryBudget ==
    ret.fn = "call_llm_structured" =>
        LET a == call.answers
            m == call.max_retries
            n == ret.result.requests
            out == ret.result.outcome
        IN  /\ n \in 1..(m + 1)
            /\ \A i \in 1..(n - 1) : a[i] \in Retried
            /\ out = "returned" <=> a[n] = "valid"
            /\ (\A i \in 1..(m + 1) : a[i] \in Retried) =>
                  /\ n = m + 1
                  /\ out = (IF a[n] = "transient" THEN "APIError" ELSE "ValueError")
            /\ a[n] \in Retried => n = m + 1
            /\ a[n] = "fatal" => out = "APIError"

\* C37 witness: a transient error, then malformed output, then a valid
\* answer on the last request of the budget.
C37_Witness ==
    /\ ret.fn = "call_llm_structured"
    /\ call.max_retries = 2
    /\ call.answers[1] = "transient"
    /\ call.answers[2] = "malformed"
    /\ call.answers[3] = "valid"
    /\ ret.result = [outcome |-> "returned", requests |-> 3]

=============================================================================
